---- MODULE Spec2Model ----
(***************************************************************************)
(* The FAQ chatbot: the retrieval access layer (src/app/retriever.py: the  *)
(* retry decorator, the lazily initialised VectorStoreRetriever and the    *)
(* module-level singleton accessors, called by concurrent threads), the    *)
(* service built on it (src/app/app.py with the settings of                *)
(* src/app/config.py) and the ingestion run (src/app/ingest.py).           *)
(* Times are in milliseconds.                                              *)
(***************************************************************************)
EXTENDS Integers, Sequences, FiniteSets, TLC

(* ------------------------------ bounds --------------------------------- *)
NThreads == 2
NDocs == 2
MaxRetries == 4
MaxDelay == 2
MaxFaults == 2
MaxCorsLen == 3
MaxChunk == 3

Threads == 1..NThreads

(* ------------------------- program constants --------------------------- *)
DefaultK == 4
EmbMaxRetries == 3
EmbDelay == 1000
LoadMaxRetries == 2
LoadDelay == 500
KMin == 1
KMax == 100

(* ----------------------------- exceptions ------------------------------ *)
\* An exception: its type, its message tag, the attempt count it carries
\* (0 when it carries none) and its __cause__ (<<>> or a one-element sequence).
Exc(type, msg, attempts, cause) ==
    [type |-> type, msg |-> msg, attempts |-> attempts, cause |-> cause]

NoExc == Exc("None", "", 0, <<>>)

ProviderError(where) == Exc("ProviderError", where, 0, <<>>)

RetrievalError(msg, attempts, e) == Exc("RetrievalError", msg, attempts, <<e>>)

\* The types a caller may see according to the layer's error taxonomy.
TaxonomyTypes == {"ValueError", "FileNotFoundError", "RetrievalError"}

(* ------------------------- retry_on_failure ---------------------------- *)
\* The state of one run of wrapper(): the decorator's arguments, the loop
\* index, and what it has done so far (calls of func, warnings and errors
\* logged, the waits slept in order, last_exception).
NewFrame(n, d) ==
    [n |-> n, d |-> d, attempt |-> 0, calls |-> 0, warns |-> 0, errs |-> 0,
     slept |-> <<>>, last |-> NoExc]

\* for attempt in range(max_retries): one more call of func is made.
LoopContinues(f) == f.attempt < f.n

\* try: return func(...)   -- func is called once more.
CallFunc(f) == [f EXCEPT !.calls = @ + 1]

\* The wait after the failed attempt with this 0-based index.
BackoffExponential(d, attempt) == d * (2 ^ attempt)
Backoff(d, attempt) == d * (attempt + 1)

\* Whether the failed attempt is followed by another one.
HasRetryLeftEarly(f) == f.attempt < f.n - 2
HasRetryLeft(f) == f.attempt < f.n - 1

\* except Exception as e: ... (lines 33-42), then the loop index advances.
OnException(f, e) ==
    IF HasRetryLeft(f)
    THEN [f EXCEPT !.last = e, !.warns = @ + 1,
                   !.slept = Append(@, Backoff(f.d, f.attempt)),
                   !.attempt = @ + 1]
    ELSE [f EXCEPT !.last = e, !.errs = @ + 1, !.attempt = @ + 1]

\* raise RetrievalError(f"Failed after {max_retries} attempts: ...") from last_exception
ExhaustedErrorNoCause(f) == Exc("RetrievalError", "Failed after attempts", f.n, <<>>)
ExhaustedError(f) == RetrievalError("Failed after attempts", f.n, f.last)

RECURSIVE SumSeq(_)
SumSeq(s) == IF s = <<>> THEN 0 ELSE Head(s) + SumSeq(Tail(s))


(* ------------------------------- values -------------------------------- *)
\* A retriever handle: vectorstore.as_retriever(search_type, {"k": k}).
\* id 0 is None; temp marks the per-call handle of retrieve_documents.
Handle(id, k, vs, temp) == [id |-> id, k |-> k, vs |-> vs, temp |-> temp]
NoHandle == Handle(0, 0, 0, FALSE)

\* What a finished call returned: kind "none" (nothing, it raised or has not
\* finished), "handle" (h), "vectorstore" (h.vs), "instance", "docs" (n of them).
Ret(kind, h, n) == [kind |-> kind, h |-> h, n |-> n]
NoRet == Ret("none", NoHandle, 0)

\* Characters of a query; the first two are whitespace for str.strip().
Whitespace == {" ", "\t"}

RECURSIVE LStrip(_)
LStrip(s) == IF s # <<>> /\ Head(s) \in Whitespace THEN LStrip(Tail(s)) ELSE s

RECURSIVE RStrip(_)
RStrip(s) ==
    IF s # <<>> /\ s[Len(s)] \in Whitespace THEN RStrip(SubSeq(s, 1, Len(s) - 1)) ELSE s

Strip(s) == RStrip(LStrip(s))

\* The arguments the model calls retrieve_documents with. k is <<>> for None.
Queries == {<<>>, <<" ">>, <<"\t", " ">>, <<" ", "a">>}
KArgs == {<<>>, <<0>>, <<1>>, <<DefaultK>>, <<KMax>>, <<KMax + 1>>}

\* if not query or not query.strip()
QueryRejected(q) == q = <<>> \/ Strip(q) = <<>>

\* if k is not None and (k < 1 or k > 100)
KRejectedNoUpper(k) == k # <<>> /\ k[1] < KMin
KRejected(k) == k # <<>> /\ (k[1] < KMin \/ k[1] > KMax)

Min(a, b) == IF a < b THEN a ELSE b

(* ------------------------------- state --------------------------------- *)
VARIABLES
    apiKey,        \* settings.GEMINI_API_KEY is non-empty
    fs,            \* the index directory: "nodir", "nofaiss", "nopkl" or "ok"
    instance,      \* _retriever_instance is not None
    lockHolder,    \* the thread holding _instance_lock, 0 when free
    embeddings,    \* self._embeddings is not None
    vectorstore,   \* self._vectorstore: 0 for None, else the id of the loaded index
    retriever,     \* self._retriever: NoHandle for None
    initialized,   \* self._initialized
    nLoads,        \* FAISS.load_local calls that returned an index
    nHandles,      \* handles bound by get_retriever
    faultsLeft,    \* provider failures the environment may still inject; -1: no limit
    th,            \* per thread: position, current call, locals, outcome
    rf,            \* retry harness: the wrapper's frame
    rpc,           \* retry harness: "call", "returned" or "raised"
    rhist,         \* retry harness: the exceptions func raised, in order
    rout,          \* retry harness: the exception the wrapper raised
    rret,          \* retry harness: what the wrapper returned, "" for nothing
    conf,          \* app: the numeric settings read from the environment
    lifespanOn,    \* app: the server runs the lifespan startup before serving
    apc,           \* app: position of the service process
    retrieval_chain, \* app: the global retrieval_chain is not None
    startup,       \* app: "none", "ok" or "failed": outcome of initialize_rag_chain
    warned,        \* app: the import logged "Settings validation: ..."
    resp,          \* app: the last request handled and the response to it
    corsEnv,       \* CORS_ORIGINS: <<>> when unset, else <<the string>>
    corsCfg,       \* the CORSMiddleware arguments: origins and credentials
    icfg,          \* ingest: the credential, the source document, the chunking
    ipc,           \* ingest: position of the ingestion run
    ilog,          \* ingest: documents loaded, split, embedded, index written
    iexit          \* ingest: the exit code, -1 while running

shared == <<apiKey, fs, instance, lockHolder, embeddings, vectorstore, retriever,
            initialized, nLoads, nHandles, faultsLeft>>
harness == <<rf, rpc, rhist, rout, rret>>
appvars == <<conf, lifespanOn, apc, retrieval_chain, startup, warned, resp>>
corsvars == <<corsEnv, corsCfg>>
ingestvars == <<icfg, ipc, ilog, iexit>>
\* What the retrieval layer never touches.
outer == <<appvars, corsvars, ingestvars>>
vars == <<apiKey, fs, instance, lockHolder, embeddings, vectorstore, retriever,
          initialized, nLoads, nHandles, faultsLeft, th, rf, rpc, rhist, rout, rret,
          conf, lifespanOn, apc, retrieval_chain, startup, warned, resp,
          corsEnv, corsCfg, icfg, ipc, ilog, iexit>>

\* self.k = k or settings.RETRIEVER_K, with the constructor's default k = 4.
SelfK == DefaultK

NoIo == [embed |-> 0, load |-> 0, bind |-> 0, search |-> 0]

\* A thread's locals at rest, before its first call.
Idle ==
    [pc |-> "idle", op |-> "none", query |-> <<>>, karg |-> <<>>,
     lw |-> NewFrame(LoadMaxRetries, LoadDelay), ew |-> NewFrame(EmbMaxRetries, EmbDelay),
     lvs |-> 0, cfg |-> NoHandle, exc |-> NoExc, ret |-> NoRet, io |-> NoIo]

\* A thread's locals on entering a public operation.
NewCall(o, q, k, at) == [Idle EXCEPT !.pc = at, !.op = o, !.query = q, !.karg = k]

\* The call returns r / raises e to its caller; its frames are gone, what is
\* left is the call made and its outcome.
Return(l, r) == [Idle EXCEPT !.op = l.op, !.query = l.query, !.karg = l.karg, !.ret = r]
Raise(l, e) == [Idle EXCEPT !.op = l.op, !.query = l.query, !.karg = l.karg, !.exc = e]

Set(t, l) == th' = [th EXCEPT ![t] = l]


(* ------------------- exception paths inside the layer ------------------ *)
\* An exception leaves VectorStoreRetriever.get_retriever / get_vectorstore and
\* reaches the public operation: retrieve_documents catches it (line 216) and
\* raises RetrievalError from it; the other operations let it through.
WrapInRetrieveNone(l, e) == Raise(l, e)
WrapInRetrieve(l, e) == Raise(l, RetrievalError("Failed to retrieve documents", 0, e))

Escapes(l, e) ==
    IF l.op = "retrieve_documents" THEN WrapInRetrieve(l, e) ELSE Raise(l, e)

\* The body of _load_vectorstore raised e inside its retry wrapper: the wrapper
\* logs and sleeps, then either runs the body again or gives up.
LoadBodyRaises(l, e) ==
    LET f2 == OnException(l.lw, e) IN
    IF LoopContinues(f2)
    THEN [l EXCEPT !.lw = f2, !.pc = "l_check"]
    ELSE Escapes([l EXCEPT !.lw = f2], ExhaustedError(f2))

\* The body of _initialize_embeddings raised e inside its retry wrapper. When
\* the wrapper gives up, its RetrievalError is raised inside the try block of
\* _load_vectorstore (line 130), caught at line 140 and raised again, wrapped.
EmbBodyRaises(l, e) ==
    LET f2 == OnException(l.ew, e) IN
    IF LoopContinues(f2)
    THEN [l EXCEPT !.ew = f2, !.pc = "e_check"]
    ELSE LoadBodyRaises([l EXCEPT !.ew = f2],
             RetrievalError("Failed to load vector store", 0, ExhaustedError(f2)))

\* _load_vectorstore returned vs to its caller: get_vectorstore returns it,
\* get_retriever goes on to bind the handle.
LoadReturns(l, vs) ==
    IF l.op = "get_vectorstore"
    THEN Return(l, Ret("vectorstore", Handle(0, 0, vs, FALSE), 0))
    ELSE [l EXCEPT !.lvs = vs, !.pc = "g_bind"]

\* if k is not None and k != self.k   (line 195)
NeedsTemp(k) == k # <<>> /\ k[1] # SelfK

\* VectorStoreRetriever.get_retriever returned h to its caller.
GetRetrieverReturns(l, h) ==
    IF l.op = "retrieve_documents"
    THEN [l EXCEPT !.cfg = h, !.pc = IF NeedsTemp(l.karg) THEN "r_temp" ELSE "r_search"]
    ELSE Return(l, Ret("handle", h, 0))

(* ------------------------ module-level accessors ----------------------- *)
\* get_retriever(): the call and the unlocked check of line 250.
CallGetRetriever(t) ==
    /\ th[t].pc = "idle"
    /\ Set(t, NewCall("get_retriever", <<>>, <<>>, IF instance THEN "g_check" ELSE "m_lock"))
    /\ UNCHANGED <<shared, harness, outer>>

\* get_vectorstore_retriever(): the call and the unlocked check of line 274.
CallGetVectorstoreRetriever(t) ==
    /\ th[t].pc = "idle"
    /\ Set(t, IF instance
              THEN Return(NewCall("get_vectorstore_retriever", <<>>, <<>>, "idle"),
                          Ret("instance", NoHandle, 0))
              ELSE NewCall("get_vectorstore_retriever", <<>>, <<>>, "m_lock"))
    /\ UNCHANGED <<shared, harness, outer>>

\* with _instance_lock:   (lines 251, 275)
AcquireLock(t) ==
    /\ th[t].pc = "m_lock"
    /\ lockHolder = 0
    /\ lockHolder' = t
    /\ Set(t, [th[t] EXCEPT !.pc = "m_crit"])
    /\ UNCHANGED <<apiKey, fs, instance, embeddings, vectorstore, retriever,
                   initialized, nLoads, nHandles, faultsLeft, harness, outer>>

\* if not self.api_key: raise ValueError(...)   (lines 80-81), ahead of every
\* field assignment of the constructor.
CtorRejectsNever == FALSE
CtorRejects == ~apiKey

\* The second check and VectorStoreRetriever() (lines 253-259, 276-282); the
\* constructor raises ValueError without an API key (lines 80-81).
CreateInstance(t) ==
    /\ th[t].pc = "m_crit"
    /\ IF instance
       THEN /\ Set(t, [th[t] EXCEPT !.pc = "m_unlock"])
            /\ UNCHANGED instance
       ELSE IF ~CtorRejects
       THEN /\ instance' = TRUE
            /\ Set(t, [th[t] EXCEPT !.pc = "m_unlock"])
       ELSE /\ Set(t, [th[t] EXCEPT !.pc = "m_unlock",
                          !.exc = RetrievalError("Failed to initialize retriever", 0,
                                      Exc("ValueError", "API key is required", 0, <<>>))])
            /\ UNCHANGED instance
    /\ UNCHANGED <<apiKey, fs, lockHolder, embeddings, vectorstore, retriever,
                   initialized, nLoads, nHandles, faultsLeft, harness, outer>>

\* Leaving the with block releases the lock, on return and on raise alike
\* (lines 251-259, 275-282): the holder after the block is left by l.
HolderAfterWithOnReturnOnly(l) == IF l.exc # NoExc THEN lockHolder ELSE 0
HolderAfterWith(l) == 0

ReleaseLock(t) ==
    /\ th[t].pc = "m_unlock"
    /\ lockHolder' = HolderAfterWith(th[t])
    /\ Set(t, IF th[t].exc # NoExc THEN Raise(th[t], th[t].exc)
              ELSE IF th[t].op = "get_retriever" THEN [th[t] EXCEPT !.pc = "g_check"]
              ELSE Return(th[t], Ret("instance", NoHandle, 0)))
    /\ UNCHANGED <<apiKey, fs, instance, embeddings, vectorstore, retriever,
                   initialized, nLoads, nHandles, faultsLeft, harness, outer>>


(* ------------------ operations on the shared instance ------------------ *)
\* A caller holding the singleton calls its get_retriever().
CallInstGetRetriever(t) ==
    /\ th[t].pc = "idle"
    /\ instance
    /\ Set(t, NewCall("inst_get_retriever", <<>>, <<>>, "g_check"))
    /\ UNCHANGED <<shared, harness, outer>>

\* get_vectorstore(): return self._load_vectorstore()   (line 231)
CallGetVectorstore(t) ==
    /\ th[t].pc = "idle"
    /\ instance
    /\ Set(t, NewCall("get_vectorstore", <<>>, <<>>, "l_check"))
    /\ UNCHANGED <<shared, harness, outer>>

\* retrieve_documents(query, k): the call and the validation of lines 182-187,
\* for a query of Q and a k of K.
CallRetrieveDocuments(t, Q, K) ==
    /\ th[t].pc = "idle"
    /\ instance
    /\ \E q \in Q, k \in K :
          Set(t, IF QueryRejected(q)
                 THEN Raise(NewCall("retrieve_documents", q, k, "idle"),
                            Exc("ValueError", "Query cannot be empty", 0, <<>>))
                 ELSE IF KRejected(k)
                 THEN Raise(NewCall("retrieve_documents", q, k, "idle"),
                            Exc("ValueError", "k must be between 1 and 100", 0, <<>>))
                 ELSE NewCall("retrieve_documents", q, k, "g_check"))
    /\ UNCHANGED <<shared, harness, outer>>

\* if self._retriever is None   (line 153); otherwise return it (line 165).
GetRetrieverCheck(t) ==
    /\ th[t].pc = "g_check"
    /\ Set(t, IF retriever = NoHandle
              THEN [th[t] EXCEPT !.pc = "l_check"]
              ELSE GetRetrieverReturns(th[t], retriever))
    /\ UNCHANGED <<shared, harness, outer>>

\* if self._vectorstore is None   (line 107) does not hold.
VectorstoreCachedNever == FALSE
VectorstoreCached == vectorstore # 0

\* One iteration of the retry loop around _load_vectorstore: the body is called
\* and tests self._vectorstore (line 107); when set, it is returned (line 144).
LoadCheck(t) ==
    /\ th[t].pc = "l_check"
    /\ LET l == [th[t] EXCEPT !.lw = CallFunc(@)] IN
       Set(t, IF ~VectorstoreCached THEN [l EXCEPT !.pc = "l_path"]
              ELSE LoadReturns(l, vectorstore))
    /\ UNCHANGED <<shared, harness, outer>>

\* The index directory exists and holds index.faiss and index.pkl: neither
\* check of lines 112-127 raises.
IndexPathOkAlways == TRUE
IndexPathOk == fs = "ok"

\* The directory and its two files must exist (lines 111-127); then the body
\* calls self._initialize_embeddings() (line 130).
LoadValidatePath(t) ==
    /\ th[t].pc = "l_path"
    /\ Set(t, IF IndexPathOk
              THEN [th[t] EXCEPT !.pc = "e_check", !.ew = NewFrame(EmbMaxRetries, EmbDelay)]
              ELSE IF fs = "nodir"
              THEN LoadBodyRaises(th[t], Exc("FileNotFoundError", "Vector database not found", 0, <<>>))
              ELSE LoadBodyRaises(th[t], Exc("FileNotFoundError", "Required file not found", 0, <<>>)))
    /\ UNCHANGED <<shared, harness, outer>>

\* if self._embeddings is None   (line 91) does not hold.
EmbeddingsCachedAlways == TRUE
EmbeddingsCached == embeddings

\* One iteration of the retry loop around _initialize_embeddings: the body is
\* called and tests self._embeddings (line 91); when set, it is returned.
EmbCheck(t) ==
    /\ th[t].pc = "e_check"
    /\ LET l == [th[t] EXCEPT !.ew = CallFunc(@)] IN
       Set(t, [l EXCEPT !.pc = IF EmbeddingsCached THEN "l_load" ELSE "e_ctor"])
    /\ UNCHANGED <<shared, harness, outer>>

\* A provider call may raise while the environment has failures left to inject.
ProviderFails ==
    /\ faultsLeft # 0
    /\ faultsLeft' = IF faultsLeft > 0 THEN faultsLeft - 1 ELSE faultsLeft

\* GoogleGenerativeAIEmbeddings(...) (lines 94-101): the provider call returns
\* a client, which is cached, or raises, which is wrapped in RetrievalError.
EmbConstruct(t) ==
    /\ th[t].pc = "e_ctor"
    /\ LET l == [th[t] EXCEPT !.io.embed = @ + 1] IN
       \/ /\ embeddings' = TRUE
          /\ Set(t, [l EXCEPT !.pc = "l_load"])
          /\ UNCHANGED faultsLeft
       \/ /\ ProviderFails
          /\ Set(t, EmbBodyRaises(l, RetrievalError("Failed to initialize embeddings", 0,
                                                    ProviderError("embed"))))
          /\ UNCHANGED embeddings
    /\ UNCHANGED <<apiKey, fs, instance, lockHolder, vectorstore, retriever,
                   initialized, nLoads, nHandles, harness, outer>>

\* except Exception as e: log; raise RetrievalError(...)   (lines 140-142):
\* the failed load assigns no field.
FailedLoadMarksInitialized == initialized' = TRUE /\ UNCHANGED <<vectorstore, nLoads>>
FailedLoadKeeps == UNCHANGED <<vectorstore, initialized, nLoads>>

\* FAISS.load_local(...) (lines 133-142): the provider call returns an index,
\* which is cached with _initialized set, or raises, which is wrapped.
LoadLocal(t) ==
    /\ th[t].pc = "l_load"
    /\ LET l == [th[t] EXCEPT !.io.load = @ + 1] IN
       \/ /\ fs = "ok"
          /\ nLoads' = nLoads + 1
          /\ vectorstore' = nLoads + 1
          /\ initialized' = TRUE
          /\ Set(t, LoadReturns(l, nLoads + 1))
          /\ UNCHANGED faultsLeft
       \/ /\ ProviderFails
          /\ Set(t, LoadBodyRaises(l, RetrievalError("Failed to load vector store", 0,
                                                     ProviderError("load"))))
          /\ FailedLoadKeeps
    /\ UNCHANGED <<apiKey, fs, instance, lockHolder, embeddings, retriever,
                   nHandles, harness, outer>>

\* vectorstore.as_retriever(search_type, {"k": self.k}) (lines 157-165): the
\* handle is cached and returned; an exception of the call is not caught here.
BindRetriever(t) ==
    /\ th[t].pc = "g_bind"
    /\ LET l == [th[t] EXCEPT !.io.bind = @ + 1] IN
       \/ /\ nHandles' = nHandles + 1
          /\ retriever' = Handle(nHandles + 1, SelfK, l.lvs, FALSE)
          /\ Set(t, GetRetrieverReturns(l, Handle(nHandles + 1, SelfK, l.lvs, FALSE)))
          /\ UNCHANGED faultsLeft
       \/ /\ ProviderFails
          /\ Set(t, Escapes(l, ProviderError("bind")))
          /\ UNCHANGED <<retriever, nHandles>>
    /\ UNCHANGED <<apiKey, fs, instance, lockHolder, embeddings, vectorstore,
                   initialized, nLoads, harness, outer>>

\* The k bound to the temporary handle (line 196).
TempKDefault(k) == SelfK
TempK(k) == k[1]

\* temp_retriever = ...   (line 197): the handle is bound to a local name;
\* self._retriever is not assigned.
KeepTempShared(h) == retriever' = h
KeepTemp(h) == UNCHANGED retriever

\* self._vectorstore.as_retriever(search_type, {"k": k}) (lines 196-200): a
\* handle for this call only.
TempRetriever(t) ==
    /\ th[t].pc = "r_temp"
    /\ LET l == [th[t] EXCEPT !.io.bind = @ + 1]
           h == Handle(0, TempK(th[t].karg), vectorstore, TRUE) IN
       \/ /\ KeepTemp(h)
          /\ Set(t, [l EXCEPT !.cfg = h, !.pc = "r_search"])
          /\ UNCHANGED faultsLeft
       \/ /\ ProviderFails
          /\ Set(t, Escapes(l, ProviderError("bind")))
          /\ UNCHANGED retriever
    /\ UNCHANGED <<apiKey, fs, instance, lockHolder, embeddings, vectorstore,
                   initialized, nLoads, nHandles, harness, outer>>

\* get_relevant_documents(query) (lines 201-214) through the handle chosen: the
\* index search returns at most that handle's k documents, or raises.
Search(t) ==
    /\ th[t].pc = "r_search"
    /\ LET l == [th[t] EXCEPT !.io.search = @ + 1] IN
       \/ /\ \E n \in 0..Min(l.cfg.k, NDocs) : Set(t, Return(l, Ret("docs", l.cfg, n)))
          /\ UNCHANGED faultsLeft
       \/ /\ ProviderFails
          /\ Set(t, Escapes(l, ProviderError("search")))
    /\ UNCHANGED <<apiKey, fs, instance, lockHolder, embeddings, vectorstore, retriever,
                   initialized, nLoads, nHandles, harness, outer>>

\* The ingestion job writes the index directory (src/app/ingest.py, save_vectorstore).
Ingest ==
    /\ fs # "ok"
    /\ fs' = "ok"
    /\ UNCHANGED <<apiKey, instance, lockHolder, embeddings, vectorstore, retriever,
                   initialized, nLoads, nHandles, faultsLeft, th, harness, outer>>

(* ------------------- the service, CORS and ingestion at rest ----------- *)
\* The settings of config.py that Settings.validate looks at, beside the API
\* key and the index directory. The temperature is in tenths.
DefaultConf ==
    [retrieverK |-> 4, retrievalTimeout |-> 30, apiTimeout |-> 60, temperature |-> 1]

\* A chain result is a mapping; each key is absent (<<>>) or holds a text.
Opt(S) == {<<>>} \cup {<<x>> : x \in S}
NoResult == [answer |-> <<>>, output_text |-> <<>>, output |-> <<>>]

\* A handled request: the route, the question sent, the status and the body of
\* the response (its top-level keys, detail, answer, health status), whether
\* retrieval_chain.invoke was called, what it raised and what it returned.
NoResp ==
    [route |-> "none", question |-> <<>>, status |-> 0, keys |-> {}, detail |-> "",
     answer |-> <<>>, health |-> "", invoked |-> FALSE, raised |-> NoExc,
     result |-> NoResult]

AppOff ==
    /\ conf = DefaultConf
    /\ lifespanOn = TRUE
    /\ apc = "off"
    /\ retrieval_chain = FALSE
    /\ startup = "none"
    /\ warned = FALSE
    /\ resp = NoResp

NoCors == [added |-> FALSE, origins |-> <<>>, credentials |-> FALSE]

CorsOff ==
    /\ corsEnv = <<>>
    /\ corsCfg = NoCors

NoIngestLog == [loads |-> 0, splits |-> 0, embeds |-> 0, writes |-> 0]

IngestOff ==
    /\ icfg = [key |-> TRUE, docs |-> TRUE, size |-> 1, overlap |-> 0]
    /\ ipc = "off"
    /\ ilog = NoIngestLog
    /\ iexit = -1

OuterIdle == AppOff /\ CorsOff /\ IngestOff

(* ---------------------------- specifications --------------------------- *)
HarnessIdle ==
    /\ rf = NewFrame(1, 1)
    /\ rpc = "off"
    /\ rhist = <<>>
    /\ rout = NoExc
    /\ rret = ""

\* The process before the first call of the layer.
LayerInit ==
    /\ instance = FALSE
    /\ lockHolder = 0
    /\ embeddings = FALSE
    /\ vectorstore = 0
    /\ retriever = NoHandle
    /\ initialized = FALSE
    /\ nLoads = 0
    /\ nHandles = 0
    /\ th = [t \in Threads |-> Idle]

\* Concurrent callers: NThreads threads, each making call after call, with one
\* rejected and one accepted query, k absent, rejected, or overriding the
\* default, and at most MaxFaults provider failures.
ConcQueries == {<<>>, <<" ", "a">>}
ConcKArgs == {<<>>, <<0>>, <<1>>}

Init ==
    /\ apiKey \in BOOLEAN
    /\ fs \in {"nodir", "ok"}
    /\ faultsLeft = MaxFaults
    /\ LayerInit
    /\ HarnessIdle
    /\ OuterIdle

Next ==
    \/ \E t \in Threads : CallGetRetriever(t)
    \/ \E t \in Threads : CallGetVectorstoreRetriever(t)
    \/ \E t \in Threads : AcquireLock(t)
    \/ \E t \in Threads : CreateInstance(t)
    \/ \E t \in Threads : ReleaseLock(t)
    \/ \E t \in Threads : CallInstGetRetriever(t)
    \/ \E t \in Threads : CallGetVectorstore(t)
    \/ \E t \in Threads : CallRetrieveDocuments(t, ConcQueries, ConcKArgs)
    \/ \E t \in Threads : GetRetrieverCheck(t)
    \/ \E t \in Threads : LoadCheck(t)
    \/ \E t \in Threads : LoadValidatePath(t)
    \/ \E t \in Threads : EmbCheck(t)
    \/ \E t \in Threads : EmbConstruct(t)
    \/ \E t \in Threads : LoadLocal(t)
    \/ \E t \in Threads : BindRetriever(t)
    \/ \E t \in Threads : TempRetriever(t)
    \/ \E t \in Threads : Search(t)
    \/ Ingest

Spec == Init /\ [][Next]_vars

\* The steps thread t takes by itself once its call is under way, and the
\* acquisition of _instance_lock, which waits for the lock to be free.
ThreadStep(t) ==
    \/ CreateInstance(t)
    \/ ReleaseLock(t)
    \/ GetRetrieverCheck(t)
    \/ LoadCheck(t)
    \/ LoadValidatePath(t)
    \/ EmbCheck(t)
    \/ EmbConstruct(t)
    \/ LoadLocal(t)
    \/ BindRetriever(t)
    \/ TempRetriever(t)
    \/ Search(t)

\* Concurrent callers under the scheduling of threads: a thread that can take
\* a step takes it in the end (each provider call returns or raises), and a
\* thread waiting for _instance_lock gets it if the lock is free again and
\* again. Callers need not call and ingestion need not run.
Fairness ==
    \A t \in Threads : WF_vars(ThreadStep(t)) /\ SF_vars(AcquireLock(t))

\* The three operations of the layer's callers, with an accepted query and k
\* absent or overriding the default, on an index directory that is there or
\* not, with or without an API key.
LiveQueries == {<<" ", "a">>}
LiveKArgs == {<<>>, <<1>>}

NextLive ==
    \/ \E t \in Threads : CallGetRetriever(t)
    \/ \E t \in Threads : CallGetVectorstoreRetriever(t)
    \/ \E t \in Threads : CallRetrieveDocuments(t, LiveQueries, LiveKArgs)
    \/ \E t \in Threads : AcquireLock(t)
    \/ \E t \in Threads : ThreadStep(t)

SpecLive == Init /\ [][NextLive]_vars /\ Fairness

\* One caller, every argument of Queries and KArgs, every index directory, and
\* provider failures without limit.
Caller == CHOOSE t \in Threads : \A u \in Threads : t <= u

InitSeq ==
    /\ apiKey \in BOOLEAN
    /\ fs \in {"nodir", "nofaiss", "nopkl", "ok"}
    /\ faultsLeft = -1
    /\ LayerInit
    /\ HarnessIdle
    /\ OuterIdle

NextSeq ==
    \/ CallGetRetriever(Caller)
    \/ CallGetVectorstoreRetriever(Caller)
    \/ AcquireLock(Caller)
    \/ CreateInstance(Caller)
    \/ ReleaseLock(Caller)
    \/ CallInstGetRetriever(Caller)
    \/ CallGetVectorstore(Caller)
    \/ CallRetrieveDocuments(Caller, Queries, KArgs)
    \/ GetRetrieverCheck(Caller)
    \/ LoadCheck(Caller)
    \/ LoadValidatePath(Caller)
    \/ EmbCheck(Caller)
    \/ EmbConstruct(Caller)
    \/ LoadLocal(Caller)
    \/ BindRetriever(Caller)
    \/ TempRetriever(Caller)
    \/ Search(Caller)
    \/ Ingest

SpecSeq == InitSeq /\ [][NextSeq]_vars


(* ------------------- retry_on_failure on its own ----------------------- *)
\* The decorator applied to an arbitrary func: max_retries of 1..MaxRetries, a
\* delay of up to MaxDelay half-seconds, and a func that on each call returns
\* one of FuncResults or raises one of FuncErrors.
FuncErrors ==
    {ProviderError("func"), Exc("FileNotFoundError", "func", 0, <<>>),
     RetrievalError("func", 0, ProviderError("func"))}
FuncResults == {"client", "index"}

InitRetry ==
    /\ apiKey = TRUE
    /\ fs = "ok"
    /\ faultsLeft = 0
    /\ LayerInit
    /\ \E n \in 1..MaxRetries, d \in 1..MaxDelay : rf = NewFrame(n, d * LoadDelay)
    /\ rpc = "call"
    /\ rhist = <<>>
    /\ rout = NoExc
    /\ rret = ""
    /\ OuterIdle

\* An iteration whose call of func returns: the wrapper returns that (line 32).
RetryCallReturns ==
    /\ rpc = "call"
    /\ LoopContinues(rf)
    /\ rf' = CallFunc(rf)
    /\ \E v \in FuncResults : rret' = v
    /\ rpc' = "returned"
    /\ UNCHANGED <<shared, th, rhist, rout, outer>>

\* An iteration whose call of func raises (lines 33-42); after the last one the
\* wrapper raises RetrievalError (line 43).
RetryCallRaises ==
    /\ rpc = "call"
    /\ LoopContinues(rf)
    /\ \E e \in FuncErrors :
          LET f2 == OnException(CallFunc(rf), e) IN
          /\ rf' = f2
          /\ rhist' = Append(rhist, e)
          /\ IF LoopContinues(f2)
             THEN UNCHANGED <<rpc, rout>>
             ELSE rpc' = "raised" /\ rout' = ExhaustedError(f2)
    /\ UNCHANGED <<shared, th, rret, outer>>

NextRetry == RetryCallReturns \/ RetryCallRaises

SpecRetry == InitRetry /\ [][NextRetry]_vars


(* --------------------------- CORS (config.py) -------------------------- *)
\* str.split(","): the pieces between the commas, empty ones included.
RECURSIVE SplitAcc(_, _, _)
SplitAcc(s, cur, acc) ==
    IF s = <<>> THEN Append(acc, cur)
    ELSE IF Head(s) = "," THEN SplitAcc(Tail(s), <<>>, Append(acc, cur))
    ELSE SplitAcc(Tail(s), Append(cur, Head(s)), acc)

SplitCommas(s) == SplitAcc(s, <<>>, <<>>)

RECURSIVE StripEach(_)
StripEach(ps) == IF ps = <<>> THEN <<>> ELSE <<Strip(Head(ps))>> \o StripEach(Tail(ps))

NonEmpty(x) == x # <<>>

\* Settings.get_cors_origins for CORS_ORIGINS = env (lines 50-60).
GetCorsOrigins(env) ==
    IF env = <<>> \/ env[1] = <<>> \/ Strip(env[1]) = <<>> THEN << <<"*">> >>
    ELSE IF Strip(env[1]) = <<"*">> THEN << <<"*">> >>
    ELSE SelectSeq(StripEach(SplitCommas(env[1])), NonEmpty)

\* app.add_middleware(CORSMiddleware, allow_origins=..., allow_credentials=True, ...)
CorsMiddleware(env) ==
    [added |-> TRUE, origins |-> GetCorsOrigins(env), credentials |-> TRUE]


(* ------------------------- the service (app.py) ------------------------ *)
\* The settings the model starts the service with: the defaults, and each
\* numeric setting in turn outside its valid range.
Confs ==
    {DefaultConf}
    \cup {[DefaultConf EXCEPT !.retrieverK = k] : k \in {0, 101}}
    \cup {[DefaultConf EXCEPT !.retrievalTimeout = 0], [DefaultConf EXCEPT !.apiTimeout = 0]}
    \cup {[DefaultConf EXCEPT !.temperature = x] : x \in {-1, 21}}

\* Settings.validate: the errors it collects (config.py lines 64-83).
SettingsErrors ==
    (IF ~apiKey THEN {"GEMINI_API_KEY"} ELSE {})
    \cup (IF fs = "nodir" THEN {"VECTORDB_PATH"} ELSE {})
    \cup (IF conf.retrieverK < 1 \/ conf.retrieverK > 100 THEN {"RETRIEVER_K"} ELSE {})
    \cup (IF conf.retrievalTimeout <= 0 THEN {"RETRIEVAL_TIMEOUT"} ELSE {})
    \cup (IF conf.apiTimeout <= 0 THEN {"API_TIMEOUT"} ELSE {})
    \cup (IF conf.temperature < 0 \/ conf.temperature > 20 THEN {"LLM_TEMPERATURE"} ELSE {})

\* if errors: raise ValueError(...)   (config.py lines 85-86)
ValidateRaises == SettingsErrors # {}

\* Importing app.py: validate_settings() inside try / except ValueError, which
\* logs a warning (lines 29-32), retrieval_chain = None (line 35), the FastAPI
\* object and its CORS middleware (lines 109-125).
ImportApp ==
    /\ apc = "import"
    /\ warned' = ValidateRaises
    /\ retrieval_chain' = FALSE
    /\ corsCfg' = CorsMiddleware(corsEnv)
    /\ apc' = "loaded"
    /\ UNCHANGED <<shared, th, harness, conf, lifespanOn, startup, resp, corsEnv,
                   ingestvars>>

\* The server sends lifespan.startup: lifespan() calls initialize_rag_chain(),
\* which begins with get_retriever() (lines 44, 65).
LifespanStart ==
    /\ apc = "loaded"
    /\ lifespanOn
    /\ apc' = "init_retriever"
    /\ UNCHANGED <<shared, th, harness, conf, lifespanOn, retrieval_chain, startup,
                   warned, resp, corsvars, ingestvars>>

\* The application object is served without lifespan events (a test client
\* that is not entered as a context manager, a server run with lifespan off).
ServeWithoutLifespan ==
    /\ apc = "loaded"
    /\ ~lifespanOn
    /\ apc' = "serving"
    /\ UNCHANGED <<shared, th, harness, conf, lifespanOn, retrieval_chain, startup,
                   warned, resp, corsvars, ingestvars>>

\* The service process calls the module-level get_retriever() (lines 65, 262).
AppGetRetriever ==
    /\ apc \in {"init_retriever", "health_retriever"}
    /\ th[Caller].op = "none"
    /\ CallGetRetriever(Caller)

\* except Exception: log; raise   in initialize_rag_chain (lines 104-106) and
\* again in lifespan (lines 46-48): the startup fails and the server exits.
AfterFailedStartupServing == "serving"
AfterFailedStartup == "exited"

\* get_retriever() has returned or raised inside initialize_rag_chain.
InitRetrieverDone ==
    /\ apc = "init_retriever"
    /\ th[Caller].pc = "idle"
    /\ th[Caller].op = "get_retriever"
    /\ IF th[Caller].exc # NoExc
       THEN startup' = "failed" /\ apc' = AfterFailedStartup
       ELSE apc' = "init_llm" /\ UNCHANGED startup
    /\ UNCHANGED <<shared, th, harness, conf, lifespanOn, retrieval_chain, warned,
                   resp, corsvars, ingestvars>>

\* ChatGoogleGenerativeAI(...), the prompt and the two chains (lines 68-100):
\* the library calls return and retrieval_chain is assigned, or one raises.
InitChain ==
    /\ apc = "init_llm"
    /\ \E ok \in BOOLEAN :
          IF ok
          THEN retrieval_chain' = TRUE /\ startup' = "ok" /\ apc' = "serving"
          ELSE startup' = "failed" /\ apc' = AfterFailedStartup /\ UNCHANGED retrieval_chain
    /\ UNCHANGED <<shared, th, harness, conf, lifespanOn, warned, resp, corsvars,
                   ingestvars>>

\* status="healthy" if retrieval_chain is not None else "unhealthy"  (line 298)
MetricsStatusAlwaysHealthy == "healthy"
MetricsStatus == IF retrieval_chain THEN "healthy" ELSE "unhealthy"

\* GET /metrics (lines 287-300).
Metrics ==
    /\ apc = "serving"
    /\ resp' = [NoResp EXCEPT !.route = "metrics", !.status = 200,
                              !.keys = {"uptime_seconds", "status", "version"},
                              !.health = MetricsStatus]
    /\ UNCHANGED <<shared, th, harness, conf, lifespanOn, apc, retrieval_chain,
                   startup, warned, corsvars, ingestvars>>

HealthKeys == {"status", "message", "version", "environment"}

HealthResponse(st) ==
    [NoResp EXCEPT !.route = "health", !.status = 200, !.keys = HealthKeys, !.health = st]

\* if retrieval_chain is None: return HealthResponse(status="unhealthy", ...)
HealthSkipsRetrieverNever == FALSE
HealthSkipsRetriever == ~retrieval_chain

\* GET /health up to its call of get_retriever() (lines 248-262).
HealthCheck ==
    /\ apc = "serving"
    /\ IF HealthSkipsRetriever
       THEN /\ resp' = HealthResponse("unhealthy")
            /\ UNCHANGED <<apc, th>>
       ELSE /\ resp' = [NoResp EXCEPT !.route = "health"]
            /\ apc' = "health_retriever"
            /\ th' = [th EXCEPT ![Caller] = Idle]
    /\ UNCHANGED <<shared, harness, conf, lifespanOn, retrieval_chain, startup,
                   warned, corsvars, ingestvars>>

\* GET /health after get_retriever(): "degraded" if it raised, else "healthy"
\* (lines 264-278).
HealthDone ==
    /\ apc = "health_retriever"
    /\ th[Caller].pc = "idle"
    /\ th[Caller].op = "get_retriever"
    /\ resp' = HealthResponse(IF th[Caller].exc # NoExc THEN "degraded" ELSE "healthy")
    /\ apc' = "serving"
    /\ UNCHANGED <<shared, th, harness, conf, lifespanOn, retrieval_chain, startup,
                   warned, corsvars, ingestvars>>

\* The questions the model posts to /chat.
ChatQuestions == {<<>>, <<" ">>, <<"\t", " ">>, <<"a">>, <<" ", "a">>}

\* ChatRequest: Field(min_length=1, max_length=1000) and validate_question,
\* which strips the question and raises ValueError when nothing is left.
RequestInvalid(q) == Len(q) < 1 \/ Len(q) > 1000 \/ Strip(q) = <<>>

\* A body that fails ChatRequest never reaches chat(): the framework raises
\* its RequestValidationError, which is not a ValueError and has its own
\* handler: 422 with the list of errors under "detail".
ValidationResponse(q) ==
    [NoResp EXCEPT !.route = "chat", !.question = q, !.status = 422,
                   !.keys = {"detail"}, !.detail = "validation errors"]

\* raise HTTPException(status_code, detail): the body is {"detail": detail}.
HttpError(q, code, detail) ==
    [NoResp EXCEPT !.route = "chat", !.question = q, !.status = code,
                   !.keys = {"detail"}, !.detail = detail]

\* What retrieval_chain.invoke returns: "answer" absent, empty, blank or a
\* text, and the keys of other chain types absent, empty or a text.
ChainResults ==
    [answer : Opt({<<>>, <<" ">>, <<"a">>}),
     output_text : Opt({<<>>, <<"b">>}),
     output : Opt({<<>>, <<"c">>})]

\* What retrieval_chain.invoke raises. The chain is the library's; chat()
\* tells RetrievalError from every other exception.
ChainErrors ==
    {RetrievalError("retrieval failed", 0, ProviderError("index search")),
     ProviderError("index search"), ProviderError("query embedding"),
     ProviderError("llm call")}

\* dict.get(key) is truthy: the key is there and its text is not empty.
Truthy(o) == o # <<>> /\ o[1] # <<>>

\* str(result): the repr of the mapping, which is never blank.
StrOf(r) == <<"{", "}">>

FallbackAnswer == <<"I", " ", "apologize">>

\* answer = result.get("answer") or result.get("output_text") or
\*          result.get("output") or str(result)          (lines 348-353)
FirstTruthy(r) ==
    IF Truthy(r.answer) THEN r.answer[1]
    ELSE IF Truthy(r.output_text) THEN r.output_text[1]
    ELSE IF Truthy(r.output) THEN r.output[1]
    ELSE StrOf(r)

\* if not answer or not answer.strip(): answer = "I apologize, ..."  (355-357)
ExtractAnswerNoFallback(r) == FirstTruthy(r)
ExtractAnswer(r) ==
    LET answer == FirstTruthy(r) IN
    IF answer = <<>> \/ Strip(answer) = <<>> THEN FallbackAnswer ELSE answer

\* The detail of the HTTPException raised for an exception of the chain
\* (lines 334-345).
ChainErrorDetailLeaks(e) == e.msg
ChainErrorDetail(e) ==
    IF e.type = "RetrievalError"
    THEN "Unable to retrieve relevant information. Please try again later."
    ELSE "Error processing your question. Please try again."

ChainErrorStatus(e) == IF e.type = "RetrievalError" THEN 503 ELSE 500

\* if retrieval_chain is None: raise HTTPException(503, ...)   (lines 321-326)
ChainMissingNever == FALSE
ChainMissing == ~retrieval_chain

\* POST /chat with body {"question": q} (lines 303-374).
Chat ==
    /\ apc = "serving"
    /\ \E q \in ChatQuestions :
          IF RequestInvalid(q)
          THEN resp' = ValidationResponse(q)
          ELSE IF ChainMissing
          THEN resp' = HttpError(q, 503, "RAG chain not initialized. Please check server logs.")
          ELSE \/ \E e \in ChainErrors :
                     resp' = [HttpError(q, ChainErrorStatus(e), ChainErrorDetail(e))
                                 EXCEPT !.invoked = TRUE, !.raised = e]
               \/ \E r \in ChainResults :
                     resp' = [NoResp EXCEPT !.route = "chat", !.question = q,
                                            !.status = 200, !.keys = {"answer"},
                                            !.answer = ExtractAnswer(r),
                                            !.invoked = TRUE, !.result = r]
    /\ UNCHANGED <<shared, th, harness, conf, lifespanOn, apc, retrieval_chain,
                   startup, warned, corsvars, ingestvars>>

\* The service process from import on, one request at a time, with every
\* index directory, its settings from Confs, and provider failures without
\* limit; the index may be written while the service runs.
InitApp ==
    /\ apiKey \in BOOLEAN
    /\ fs \in {"nodir", "nofaiss", "nopkl", "ok"}
    /\ faultsLeft = -1
    /\ LayerInit
    /\ HarnessIdle
    /\ conf \in Confs
    /\ lifespanOn \in BOOLEAN
    /\ apc = "import"
    /\ retrieval_chain = FALSE
    /\ startup = "none"
    /\ warned = FALSE
    /\ resp = NoResp
    /\ CorsOff
    /\ IngestOff

NextApp ==
    \/ ImportApp
    \/ LifespanStart
    \/ ServeWithoutLifespan
    \/ AppGetRetriever
    \/ AcquireLock(Caller)
    \/ CreateInstance(Caller)
    \/ ReleaseLock(Caller)
    \/ GetRetrieverCheck(Caller)
    \/ LoadCheck(Caller)
    \/ LoadValidatePath(Caller)
    \/ EmbCheck(Caller)
    \/ EmbConstruct(Caller)
    \/ LoadLocal(Caller)
    \/ BindRetriever(Caller)
    \/ InitRetrieverDone
    \/ InitChain
    \/ Metrics
    \/ HealthCheck
    \/ HealthDone
    \/ Chat
    \/ Ingest

SpecApp == InitApp /\ [][NextApp]_vars

\* The import of app.py under every CORS_ORIGINS of up to MaxCorsLen
\* characters (blank, comma, wildcard, a letter), and CORS_ORIGINS unset.
CorsChars == {" ", ",", "*", "a"}
CorsEnvs == {<<>>} \cup {<<s>> : s \in UNION {[1..n -> CorsChars] : n \in 0..MaxCorsLen}}

InitCors ==
    /\ apiKey = TRUE
    /\ fs = "ok"
    /\ faultsLeft = 0
    /\ LayerInit
    /\ HarnessIdle
    /\ conf = DefaultConf
    /\ lifespanOn = TRUE
    /\ apc = "import"
    /\ retrieval_chain = FALSE
    /\ startup = "none"
    /\ warned = FALSE
    /\ resp = NoResp
    /\ corsEnv \in CorsEnvs
    /\ corsCfg = NoCors
    /\ IngestOff

NextCors == ImportApp

SpecCors == InitCors /\ [][NextCors]_vars


(* ------------------------- ingestion (ingest.py) ----------------------- *)
\* validate_inputs: the errors it collects (lines 44-67).
IngestErrorsNoUpper ==
    (IF ~icfg.key THEN {"GEMINI_API_KEY"} ELSE {})
    \cup (IF ~icfg.docs THEN {"DOCS_PATH"} ELSE {})
    \cup (IF icfg.size < 1 THEN {"CHUNK_SIZE"} ELSE {})
    \cup (IF icfg.overlap < 0 THEN {"CHUNK_OVERLAP negative"} ELSE {})
IngestErrors ==
    (IF ~icfg.key THEN {"GEMINI_API_KEY"} ELSE {})
    \cup (IF ~icfg.docs THEN {"DOCS_PATH"} ELSE {})
    \cup (IF icfg.size < 1 THEN {"CHUNK_SIZE"} ELSE {})
    \cup (IF icfg.overlap < 0 THEN {"CHUNK_OVERLAP negative"} ELSE {})
    \cup (IF icfg.overlap >= icfg.size THEN {"CHUNK_OVERLAP not less"} ELSE {})

\* sys.exit(1)
IngestExit ==
    /\ ipc' = "exited"
    /\ iexit' = 1

\* main: validate_inputs()   (lines 42-76, 172)
ValidateInputs ==
    /\ ipc = "validate"
    /\ IF IngestErrors # {}
       THEN IngestExit
       ELSE ipc' = "load" /\ UNCHANGED iexit
    /\ UNCHANGED <<shared, th, harness, appvars, corsvars, icfg, ilog>>

\* main: documents = load_documents()   (lines 79-102, 175); the loader
\* returns or raises, and any exception ends the run.
LoadDocuments ==
    /\ ipc = "load"
    /\ ilog' = [ilog EXCEPT !.loads = @ + 1]
    /\ \E ok \in BOOLEAN :
          IF ok THEN ipc' = "split" /\ UNCHANGED iexit ELSE IngestExit
    /\ UNCHANGED <<shared, th, harness, appvars, corsvars, icfg>>

\* main: chunks = split_documents(documents)   (lines 105-118, 178)
SplitDocuments ==
    /\ ipc = "split"
    /\ ilog' = [ilog EXCEPT !.splits = @ + 1]
    /\ \E ok \in BOOLEAN :
          IF ok THEN ipc' = "embed" /\ UNCHANGED iexit ELSE IngestExit
    /\ UNCHANGED <<shared, th, harness, appvars, corsvars, icfg>>

\* main: vectorstore = create_vectorstore(chunks)   (lines 121-137, 181): the
\* embedding client and FAISS.from_documents, which embeds the chunks.
CreateVectorstore ==
    /\ ipc = "embed"
    /\ ilog' = [ilog EXCEPT !.embeds = @ + 1]
    /\ \E ok \in BOOLEAN :
          IF ok THEN ipc' = "save" /\ UNCHANGED iexit ELSE IngestExit
    /\ UNCHANGED <<shared, th, harness, appvars, corsvars, icfg>>

\* main: save_vectorstore(vectorstore)   (lines 140-162, 184): mkdir and
\* save_local write the index directory; a failure after mkdir leaves the
\* directory without its files.
SaveVectorstore ==
    /\ ipc = "save"
    /\ ilog' = [ilog EXCEPT !.writes = @ + 1]
    /\ \/ /\ fs' = "ok"
          /\ ipc' = "done"
          /\ iexit' = 0
       \/ /\ fs' \in {fs} \cup (IF fs = "nodir" THEN {"nofaiss"} ELSE {})
          /\ IngestExit
    /\ UNCHANGED <<apiKey, instance, lockHolder, embeddings, vectorstore, retriever,
                   initialized, nLoads, nHandles, faultsLeft, th, harness, appvars,
                   corsvars, icfg>>

\* Runs of ingest.py with and without the credential and the source document,
\* a CHUNK_SIZE of 0..MaxChunk and a CHUNK_OVERLAP of -1..MaxChunk.
InitIngest ==
    /\ apiKey = TRUE
    /\ fs \in {"nodir", "ok"}
    /\ faultsLeft = 0
    /\ LayerInit
    /\ HarnessIdle
    /\ AppOff
    /\ CorsOff
    /\ icfg \in [key : BOOLEAN, docs : BOOLEAN, size : 0..MaxChunk, overlap : -1..MaxChunk]
    /\ ipc = "validate"
    /\ ilog = NoIngestLog
    /\ iexit = -1

NextIngest ==
    \/ ValidateInputs
    \/ LoadDocuments
    \/ SplitDocuments
    \/ CreateVectorstore
    \/ SaveVectorstore

SpecIngest == InitIngest /\ [][NextIngest]_vars


(* ------------------------------ properties ----------------------------- *)
\* The exception at the bottom of an exception's chain of causes.
RECURSIVE RootCause(_)
RootCause(e) == IF e.cause = <<>> THEN e ELSE RootCause(e.cause[1])

\* A query that is empty or consists of whitespace only.
BlankQuery(q) == \A i \in 1..Len(q) : q[i] \in {" ", "\t"}

\* A k that is given and lies outside 1..100.
KOutOfRange(k) == k # <<>> /\ ~(1 <= k[1] /\ k[1] <= 100)

\* C1: under every interleaving of concurrent first callers the index is loaded
\* once: FAISS.load_local never returns a second index.
C1_SingleLoad == nLoads <= 1

\* C2: a call of retrieve_documents with a blank query or a k outside 1..100
\* raises ValueError at once, with no provider call made, and leaves
\* _embeddings, _vectorstore, _retriever and _initialized as they were.
C2_ValidationBeforeIO ==
    [][\A t \in Threads :
          (/\ th[t].pc = "idle"
           /\ th'[t] # th[t]
           /\ th'[t].op = "retrieve_documents"
           /\ (BlankQuery(th'[t].query) \/ KOutOfRange(th'[t].karg)))
          => /\ th'[t].pc = "idle"
             /\ th'[t].exc.type = "ValueError"
             /\ th'[t].ret = NoRet
             /\ th'[t].io = NoIo
             /\ UNCHANGED <<embeddings, vectorstore, retriever, initialized,
                            nLoads, nHandles>>]_vars

C2_Witness ==
    \E t \in Threads :
        /\ th[t].op = "retrieve_documents"
        /\ th[t].karg = <<101>>
        /\ ~BlankQuery(th[t].query)
        /\ th[t].exc.type = "ValueError"
        /\ retriever # NoHandle

\* C3: a retrieve_documents(query, k) that returns, for a k given in 1..100,
\* returns at most k documents, found through a handle bound to that k.
C3_AtMostKDocs ==
    \A t \in Threads :
        (th[t].ret.kind = "docs" /\ th[t].karg # <<>>)
        => /\ th[t].ret.n <= th[t].karg[1]
           /\ th[t].ret.h.k = th[t].karg[1]

C3_Witness ==
    \E t \in Threads :
        /\ th[t].ret.kind = "docs"
        /\ th[t].karg = <<1>>
        /\ th[t].ret.n = 1
        /\ th[t].ret.h.temp

\* C4: binding the temporary handle for a k other than the default, and
\* searching through it, leave self._retriever, self._vectorstore and the
\* default k as they were: the cached handle is always the one bound to the
\* default k, and a call without k searches with the default k.
C4_OverrideLeavesHandle ==
    [][\A t \in Threads :
          /\ (th[t].pc \in {"r_temp", "r_search"} /\ th'[t] # th[t])
             => UNCHANGED <<retriever, vectorstore, embeddings, initialized>>
          /\ (th[t].pc = "r_temp" /\ th'[t].pc = "r_search")
             => (th'[t].cfg.temp /\ th'[t].cfg # retriever')
          /\ retriever' # NoHandle => (retriever'.k = DefaultK /\ ~retriever'.temp)
          /\ (th'[t].ret.kind = "docs" /\ th'[t].karg = <<>>)
             => (th'[t].ret.h.k = DefaultK /\ ~th'[t].ret.h.temp)]_vars

C4_Witness ==
    \E t, u \in Threads :
        /\ t # u
        /\ th[t].ret.kind = "docs"
        /\ th[t].karg = <<1>>
        /\ th[t].ret.h.temp
        /\ th[u].ret.kind = "docs"
        /\ th[u].karg = <<>>
        /\ th[u].ret.h = retriever

\* C5: for a valid query and k, whatever fails inside retrieve_documents reaches
\* the caller as the RetrievalError raised at line 222.
C5_OnlyRetrievalError ==
    \A t \in Threads :
        (/\ th[t].pc = "idle"
         /\ th[t].op = "retrieve_documents"
         /\ ~BlankQuery(th[t].query)
         /\ ~KOutOfRange(th[t].karg)
         /\ th[t].exc # NoExc)
        => /\ th[t].exc.type = "RetrievalError"
           /\ th[t].exc.msg = "Failed to retrieve documents"

C5_Witness ==
    \E t \in Threads :
        /\ th[t].op = "retrieve_documents"
        /\ th[t].exc.type = "RetrievalError"
        /\ th[t].exc.cause = <<ProviderError("search")>>

\* C6: no public operation lets an exception of the provider through: what a
\* caller sees raised is of the layer's own taxonomy.
C6_NoProviderErrorEscapes ==
    \A t \in Threads :
        (th[t].pc = "idle" /\ th[t].exc # NoExc) => th[t].exc.type \in TaxonomyTypes

\* C7: when func fails on every one of the n attempts, func has been called
\* exactly n times and the wrapper raises one RetrievalError that carries n and
\* has the exception of the n-th attempt as its cause; before the n-th failure
\* the wrapper has raised nothing.
C7_ExhaustionRaisesOnce ==
    /\ Len(rhist) = rf.n =>
          /\ rpc = "raised"
          /\ rf.calls = rf.n
          /\ rout.type = "RetrievalError"
          /\ rout.attempts = rf.n
          /\ rout.cause = <<rhist[rf.n]>>
    /\ Len(rhist) < rf.n => (rpc # "raised" /\ rout = NoExc)

C7_Witness ==
    /\ rpc = "raised"
    /\ rf.n = 3
    /\ rhist[1] # rhist[3]
    /\ rhist[2] # rhist[3]

C9_SuccessAfterFailures ==
    rpc = "returned" =>
        /\ Len(rhist) < rf.n
        /\ rret \in FuncResults
        /\ rout = NoExc
        /\ rf.calls = Len(rhist) + 1
        /\ rf.warns = Len(rhist)
        /\ rf.errs = 0

C9_Witness ==
    /\ rpc = "returned"
    /\ rf.n = 3
    /\ Len(rhist) = 2
    /\ rf.warns = 2

\* C10: a missing index directory or artifact file ends the load on the first
\* attempt, with no wait and no second call, and the caller sees the not-found
\* error itself, not a RetrievalError.
C10_NotFoundFailsFast ==
    \A t \in Threads :
        /\ th[t].lw.last.type = "FileNotFoundError"
           => (th[t].lw.slept = <<>> /\ th[t].lw.calls = 1)
        /\ (th[t].pc = "idle" /\ RootCause(th[t].exc).type = "FileNotFoundError")
           => th[t].exc.type = "FileNotFoundError"


\* C11: without an API credential the constructor raises its configuration
\* error before anything else: no instance is published, no embedding client
\* is built, no index is read, and a finished module-level accessor call has
\* raised an error whose root cause is the constructor's ValueError.
C11_NoKeyNoInstance ==
    ~apiKey =>
        /\ instance = FALSE
        /\ embeddings = FALSE
        /\ vectorstore = 0
        /\ retriever = NoHandle
        /\ nLoads = 0
        /\ \A t \in Threads :
              /\ th[t].io = NoIo
              /\ (th[t].pc = "idle" /\ th[t].op \in {"get_retriever", "get_vectorstore_retriever"})
                    => /\ th[t].exc # NoExc
                       /\ RootCause(th[t].exc).type = "ValueError"

C11_Witness ==
    /\ ~apiKey
    /\ instance = FALSE
    /\ \E t \in Threads :
          /\ th[t].pc = "idle"
          /\ th[t].op = "get_retriever"
          /\ th[t].exc # NoExc
          /\ RootCause(th[t].exc).type = "ValueError"
    /\ \E u \in Threads : th[u].pc = "m_crit"

\* C12: a POST /chat whose question is empty after trimming is answered with
\* status 400 and a body that has an "error" field and no "answer" field, and
\* the chain is not invoked.
C12_BlankQuestionIs400 ==
    (resp.route = "chat" /\ Strip(resp.question) = <<>>)
        => /\ resp.status = 400
           /\ "error" \in resp.keys
           /\ "answer" \notin resp.keys
           /\ ~resp.invoked

\* C13: while retrieval_chain is None, a POST /chat with a valid question is
\* answered 503 without invoking the chain and without changing the chain,
\* the startup outcome or any state of the retrieval layer, and a GET /health
\* reports "unhealthy" or "degraded".
C13_UninitialisedIs503 ==
    [][~retrieval_chain =>
          /\ (resp' # resp /\ resp'.route = "chat" /\ ~RequestInvalid(resp'.question))
                => /\ resp'.status = 503
                   /\ ~resp'.invoked
                   /\ UNCHANGED <<shared, th, retrieval_chain, startup, apc>>
          /\ (resp' # resp /\ resp'.route = "health" /\ resp'.status # 0)
                => resp'.health \in {"unhealthy", "degraded"}]_vars

C13_Witness ==
    /\ ~retrieval_chain
    /\ fs = "nodir"
    /\ resp.route = "chat"
    /\ ~RequestInvalid(resp.question)
    /\ resp.status = 503
    /\ ~resp.invoked

\* C14: when retrieval_chain.invoke raises, POST /chat answers 503 with one
\* fixed message for a RetrievalError and 500 with another fixed message for
\* any other exception, and the detail is never the text of the exception or
\* of its cause.
C14_GenericErrorDetail ==
    (resp.route = "chat" /\ resp.raised # NoExc) =>
        /\ retrieval_chain
        /\ resp.keys = {"detail"}
        /\ IF resp.raised.type = "RetrievalError"
           THEN /\ resp.status = 503
                /\ resp.detail = "Unable to retrieve relevant information. Please try again later."
           ELSE /\ resp.status = 500
                /\ resp.detail = "Error processing your question. Please try again."
        /\ resp.detail # resp.raised.msg
        /\ resp.detail # RootCause(resp.raised).msg

C14_Witness ==
    /\ resp.route = "chat"
    /\ resp.invoked
    /\ resp.raised = ProviderError("index search")
    /\ resp.status = 500

\* C15: when the chain's result has no "answer", or an empty or blank one,
\* the answer of the 200 response is the fixed fallback message.
C15_BlankAnswerGetsFallback ==
    (/\ resp.route = "chat"
     /\ resp.status = 200
     /\ (resp.result.answer = <<>> \/ Strip(resp.result.answer[1]) = <<>>))
        => resp.answer = FallbackAnswer

\* C16: a failed initialize_rag_chain ends the process before any request is
\* handled and leaves retrieval_chain unset; and when the lifespan runs, a
\* request is handled only after the one startup has built the chain.
C16_FailClosed ==
    /\ startup = "failed" => (apc = "exited" /\ resp = NoResp /\ ~retrieval_chain)
    /\ (lifespanOn /\ (resp # NoResp \/ apc \in {"serving", "health_retriever"}))
          => (startup = "ok" /\ retrieval_chain /\ retriever # NoHandle)

C16_Witness ==
    /\ lifespanOn
    /\ startup = "failed"
    /\ apc = "exited"
    /\ instance
    /\ th[Caller].exc # NoExc

\* C17: no step of a GET /health or GET /metrics request creates the
\* singleton, takes its lock, builds the embedding client, loads the index or
\* binds a handle, and none changes retrieval_chain or the startup outcome.
C17_StatusRoutesArePure ==
    [][(\/ apc = "health_retriever"
        \/ apc' = "health_retriever"
        \/ (resp' # resp /\ resp'.route \in {"health", "metrics"}))
          => /\ UNCHANGED <<instance, lockHolder, embeddings, vectorstore, retriever,
                            initialized, nLoads, nHandles, retrieval_chain, startup>>
             /\ th'[Caller].io = NoIo]_vars

C17_Witness ==
    /\ retrieval_chain
    /\ resp.route = "health"
    /\ resp.health = "healthy"
    /\ th[Caller].op = "get_retriever"
    /\ th[Caller].ret.kind = "handle"
    /\ nHandles = 1

\* The configuration errors the startup is said to stop at.
ListedConfigError ==
    \/ ~apiKey
    \/ conf.retrieverK < 1 \/ conf.retrieverK > 100
    \/ conf.retrievalTimeout <= 0 \/ conf.apiTimeout <= 0
    \/ conf.temperature < 0 \/ conf.temperature > 20

\* C18: with a missing credential, a RETRIEVER_K outside 1..100, a timeout
\* that is not positive or a temperature outside 0..2, the service process
\* started with its lifespan never starts initialising the RAG chain and
\* never serves a request.
C18_ConfigErrorIsFatal ==
    (lifespanOn /\ ListedConfigError) =>
        /\ apc \in {"import", "loaded", "exited"}
        /\ startup = "none"
        /\ ~retrieval_chain
        /\ resp = NoResp

\* C19: whatever CORS_ORIGINS is, the CORS middleware is never configured
\* with the wildcard origin "*" while credentials are allowed.
C19_NoWildcardWithCredentials ==
    corsCfg.added =>
        ~(/\ corsCfg.credentials
          /\ \E i \in 1..Len(corsCfg.origins) : corsCfg.origins[i] = <<"*">>)

\* C20: an ingestion run whose configuration violates
\* 0 <= chunk_overlap < chunk_size, or lacks the credential or the source
\* document, ends in validate_inputs with exit code 1: no document is loaded
\* or split, nothing is embedded and the index directory is not written.
C20_InvalidIngestStopsFirst ==
    (\/ ~(0 <= icfg.overlap /\ icfg.overlap < icfg.size)
     \/ ~icfg.key
     \/ ~icfg.docs)
        => /\ ipc \in {"validate", "exited"}
           /\ ilog = NoIngestLog
           /\ ipc = "exited" => iexit = 1
           /\ ipc = "validate" => iexit = -1

C20_Witness ==
    /\ icfg.key
    /\ icfg.docs
    /\ icfg.size >= 1
    /\ icfg.overlap >= icfg.size
    /\ ipc = "exited"
    /\ iexit = 1
    /\ ilog = NoIngestLog

\* C21: within one call that initialises the layer, as long as no embedding
\* client has been built the constructor has been attempted at most 3 times,
\* and FAISS.load_local is attempted at most 2 times.
C21_AttemptsPerInit ==
    \A t \in Threads :
        /\ ~embeddings => th[t].io.embed <= 3
        /\ th[t].io.load <= 2

\* C22: in an initialising call the embedding client is constructed (or its
\* construction attempted) before the index path is validated; the index is
\* loaded only after the client was built, and the handle is bound only
\* after the index was loaded.
C22_EmbedBeforePathCheck ==
    \A t \in Threads :
        /\ th[t].pc = "l_path" => (embeddings \/ th[t].io.embed > 0)
        /\ th[t].pc = "l_load" => embeddings
        /\ th[t].pc = "g_bind" => vectorstore # 0

\* C22 as amended: the index path is validated first; the embedding client is
\* constructed only in an attempt whose path validation passed, the index is
\* loaded only after the client was built, and the handle is bound only after
\* the index was loaded. A failed step is followed by none of the later ones
\* in that attempt.
C22_PathCheckBeforeEmbed ==
    [][\A t \in Threads :
          /\ th'[t].pc \in {"e_check", "e_ctor"} => fs = "ok"
          /\ (th[t].pc = "l_path" /\ th'[t] # th[t] /\ fs # "ok")
                => (th'[t].pc \in {"l_check", "idle"} /\ th'[t].io = th[t].io)
          /\ (th[t].pc # "e_check" /\ th'[t].pc = "e_check") => th[t].pc \in {"l_path", "e_ctor"}
          /\ th'[t].pc = "l_load" => (embeddings' /\ th[t].pc \in {"e_check", "e_ctor"})
          /\ (th[t].pc = "e_ctor" /\ th'[t] # th[t] /\ ~embeddings')
                => th'[t].pc \in {"e_check", "l_check", "idle"}
          /\ th'[t].pc = "g_bind" => (vectorstore' # 0 /\ th[t].pc \in {"l_check", "l_load"})
          /\ (th[t].pc = "l_load" /\ th'[t] # th[t] /\ vectorstore' = 0)
                => th'[t].pc \in {"l_check", "idle"}]_vars

C22_Witness ==
    /\ th[Caller].pc = "g_bind"
    /\ th[Caller].io.embed = 1
    /\ th[Caller].io.load = 1
    /\ embeddings
    /\ vectorstore # 0
    /\ retriever = NoHandle

\* C23: once a handle is bound, no later call of get_retriever,
\* get_vectorstore or retrieve_documents constructs an embedding client,
\* validates the index path or loads the index again, the cached client,
\* index and handle stay what they are, and every get_retriever returns the
\* cached handle.
C23_InitIsCached ==
    [][retriever # NoHandle =>
          /\ UNCHANGED <<retriever, vectorstore, embeddings, initialized, nLoads, nHandles>>
          /\ \A t \in Threads :
                /\ th'[t].pc \notin {"l_path", "e_check", "e_ctor", "l_load", "g_bind"}
                /\ th'[t].io.embed <= th[t].io.embed
                /\ th'[t].io.load <= th[t].io.load
                /\ (th'[t] # th[t] /\ th'[t].ret.kind = "handle") => th'[t].ret.h = retriever]_vars

C23_Witness ==
    /\ retriever # NoHandle
    /\ th[Caller].op = "get_vectorstore"
    /\ th[Caller].ret.kind = "vectorstore"
    /\ th[Caller].ret.h.vs = vectorstore
    /\ nLoads = 1

C25_InitChainOfFields ==
    /\ retriever # NoHandle => vectorstore # 0
    /\ vectorstore # 0 => embeddings
    /\ initialized => vectorstore # 0

C25_Witness ==
    /\ retriever # NoHandle
    /\ vectorstore # 0
    /\ embeddings
    /\ initialized
    /\ \E t \in Threads : th[t].pc = "l_load"

\* C26: retrieval_chain is set only when the singleton exists and its handle
\* is bound; the get_retriever() of GET /health never raises, /health never
\* answers "degraded", and /health and /metrics each answer "healthy" exactly
\* when retrieval_chain is set.
C26_ChainImpliesHandle ==
    /\ retrieval_chain => (instance /\ retriever # NoHandle)
    /\ (apc = "health_retriever" /\ th[Caller].pc = "idle") => th[Caller].exc = NoExc
    /\ (resp.route = "health" /\ resp.status = 200)
          => /\ resp.health # "degraded"
             /\ resp.health = "healthy" <=> retrieval_chain
    /\ resp.route = "metrics" => (resp.health = "healthy" <=> retrieval_chain)

C26_Witness ==
    /\ retrieval_chain
    /\ resp.route = "metrics"
    /\ resp.health = "healthy"
    /\ th[Caller].op = "get_retriever"
    /\ th[Caller].ret.h = retriever
    /\ apc = "serving"

\* C27: a failed initialisation is not cached. The step that ends a call with
\* the error of a failed path check, client construction or load leaves
\* _vectorstore, _retriever, _initialized and the singleton as they were; a
\* caller that finds no handle and no index starts its own load with a fresh
\* retry count; and a caller is handed an exception only by a step of its own
\* attempt, never at one of the checks of the cached fields.
C27_FailureNotCached ==
    [][\A t \in Threads :
          /\ (/\ th[t].pc \in {"l_path", "e_ctor", "l_load"}
              /\ th'[t].pc = "idle"
              /\ th'[t].exc # NoExc)
                => UNCHANGED <<vectorstore, retriever, initialized, instance>>
          /\ (th[t].pc = "g_check" /\ th'[t] # th[t] /\ retriever = NoHandle)
                => (th'[t].pc = "l_check" /\ th'[t].lw = NewFrame(LoadMaxRetries, LoadDelay))
          /\ (th[t].pc = "l_check" /\ th'[t] # th[t] /\ vectorstore = 0)
                => (th'[t].pc = "l_path" /\ th'[t].exc = NoExc)
          /\ (th[t].exc = NoExc /\ th'[t].exc # NoExc)
                => th[t].pc \in {"idle", "m_crit", "l_path", "e_ctor", "l_load",
                                 "g_bind", "r_temp", "r_search"}]_vars

C27_Witness ==
    \E t, u \in Threads :
        /\ t # u
        /\ th[t].pc = "idle"
        /\ th[t].op = "get_retriever"
        /\ RootCause(th[t].exc).type = "FileNotFoundError"
        /\ th[u].pc = "idle"
        /\ th[u].ret.kind = "handle"
        /\ th[u].ret.h = retriever
        /\ fs = "ok"
        /\ nLoads = 1

\* C29: every 200 response of POST /chat carries an answer that is neither
\* empty nor made of whitespace only, whatever mapping the chain returned:
\* "answer" present, absent, empty or blank.
C29_AnswerNeverBlank ==
    (resp.route = "chat" /\ resp.status = 200) =>
        /\ resp.answer # <<>>
        /\ Strip(resp.answer) # <<>>

\* A 200 response to a chain result whose "answer" is a blank text: the
\* response carries the apology.
C29_Witness ==
    /\ resp.route = "chat"
    /\ resp.status = 200
    /\ resp.result.answer = << <<" ">> >>
    /\ resp.answer = FallbackAnswer

====
